---------------------------- MODULE Spec2Model ----------------------------
(***************************************************************************)
(* Zone formation and scoring engine of projet-dataviz                     *)
(* (src/zone_analyzer.py, class ZoneAnalyzer) and its dashboard caller     *)
(* (src/app.py, analyze_zones / main).                                     *)
(*                                                                         *)
(* Number representation.  The program computes in float64.  Here every    *)
(* non-integer quantity (means, medians, scores, log1p) is a fixed-point   *)
(* integer in hundredths, rounded down (log1p: thousandths); distances     *)
(* are metres, incomes thousands of euros.  Integer inputs (population,    *)
(* households, percentages, incomes) are kept as integers.  A DataFrame    *)
(* is a sequence of row records; a reference that may be None is a record  *)
(* [isNone, rows].                                                         *)
(*                                                                         *)
(* Columns that no operation of the engine reads back (latitude/longitude  *)
(* means, niveau_vie_median, nb_maisons_individuelles, code_departement,   *)
(* region) are not carried in the rows.                                    *)
(***************************************************************************)
EXTENDS Integers, Sequences, FiniteSets, TLC

\* Largest number of rows of the commune table handed to the analyzer.
MaxCommunes == 4

VARIABLES
    data,                    \* self.data: the analyzer's copy of the commune table
    national_median_income,  \* self.national_median_income (hundredths), "NaN" for an empty table
    zones,                   \* self.zones
    scored_zones,            \* self.scored_zones
    MIN_HOUSEHOLDS,          \* config.MIN_HOUSEHOLDS (module global, set by the dashboard)
    min_pct_maisons,         \* config.TARGET_CRITERIA['min_pct_maisons'] (set by the dashboard)
    argsortTies,             \* how this build's quicksort orders equal keys
    zones_df,                \* commune_assignments of the latest create_zones call
    radius_used,             \* max_radius_km (metres) of the latest create_zones call, <<>> before any
    pending,                 \* rows of eligible the loop of a create_zones call under way has yet to process
    ret,                     \* what the latest public call returned or raised
    held,                    \* a table an earlier call returned, as the caller still holds it
    cache,                   \* st.cache_data of analyze_zones: entries [max_radius, rows]
    run                      \* position inside a create_zones(r); calculate_scores run (3: analyze_zones just returned)

vars == <<data, national_median_income, zones, scored_zones, MIN_HOUSEHOLDS,
          min_pct_maisons, argsortTies, zones_df, radius_used, pending, ret, held, cache,
          run>>

-----------------------------------------------------------------------------
(* Generic helpers *)

Range(s) == {s[i] : i \in DOMAIN s}

RECURSIVE SumSeq(_)
SumSeq(s) == IF s = <<>> THEN 0 ELSE Head(s) + SumSeq(Tail(s))

MinOf(S) == CHOOSE x \in S : \A y \in S : x <= y
MaxOf(S) == CHOOSE x \in S : \A y \in S : x >= y

\* The elements of a finite set of integers in ascending order.
RECURSIVE SortedSeq(_)
SortedSeq(S) == IF S = {} THEN <<>> ELSE <<MinOf(S)>> \o SortedSeq(S \ {MinOf(S)})

\* The values of an integer sequence in ascending order (duplicates kept).
RECURSIVE SortAsc(_)
SortAsc(s) ==
    IF s = <<>> THEN <<>>
    ELSE LET m == MinOf(Range(s))
             i == CHOOSE k \in DOMAIN s : s[k] = m
         IN <<m>> \o SortAsc(SubSeq(s, 1, i - 1) \o SubSeq(s, i + 1, Len(s)))

\* Floor of a / b for b # 0 (float division, rounded down to the grid).
FloorDiv(a, b) == IF b > 0 THEN a \div b ELSE (0 - a) \div (0 - b)

\* An integer quantity in hundredths.
Fix(x) == x * 100

\* Kilometres in metres.
Metres(km) == km * 1000

\* pandas mean of an integer column, in hundredths.
Mean(s) == Fix(SumSeq(s)) \div Len(s)

\* pandas median of an integer column, in hundredths: the middle value, or the
\* mean of the two middle values.
Median(s) ==
    LET o == SortAsc(s)
        n == Len(s)
    IN IF n % 2 = 1 THEN Fix(o[(n + 1) \div 2])
       ELSE Fix(o[n \div 2] + o[n \div 2 + 1]) \div 2

-----------------------------------------------------------------------------
(* References that may be None, and DataFrames *)

None == [isNone |-> TRUE, rows |-> <<>>]
DF(rows) == [isNone |-> FALSE, rows |-> rows]
EmptyDF == DF(<<>>)                      \* pd.DataFrame()

-----------------------------------------------------------------------------
(* Inputs: places, communes, radii, configuration *)

\* Five places.  A = (48.8566, 2.3522); A5 is 5 km north of A, A12 is 12 km
\* east of A; B is 195 km south of A (200 km from A5), B5 is 5 km south of B.
Place == [A |-> 1, A5 |-> 2, A12 |-> 3, B |-> 4, B5 |-> 5]

\* distances = 6371 * 2 * arcsin(sqrt(a)) of zone_analyzer.py:118-125,
\* evaluated for every pair of places, in metres.
HaversineM ==
    << <<0,      5004,   11998,  195003, 199995>>,
       <<5004,   0,      12995,  200006, 204999>>,
       <<11998,  12995,  0,      195384, 200368>>,
       <<195003, 200006, 195384, 0,      4993>>,
       <<199995, 204999, 200368, 4993,   0>> >>

haversine(commune_place, center_place) == HaversineM[commune_place][center_place]

Commune(code, place, pop, men, pm, prp, rev, tp) ==
    [code_commune |-> code, place |-> place, population_totale |-> pop,
     nb_menages |-> men, pct_maisons |-> pm, pct_residences_principales |-> prp,
     revenu_median |-> rev, taux_pauvrete |-> tp]

\* The communes a table is drawn from.  code_commune (also standing for
\* nom_commune) identifies the commune.
Catalogue ==
    << Commune(1, Place.A5,  500,  200,  40, 60, 18,    14),  \* village near A
       Commune(2, Place.A,   2000, 400,  60, 80, 20,    10),  \* city at A
       Commune(3, Place.A,   1500, 300,  70, 70, 24,    8),   \* second city at A
       Commune(4, Place.A12, 600,  4600, 80, 90, 30,    6),   \* 12 km from A
       Commune(5, Place.B,   2000, 400,  60, 80, 20,    10),  \* city at B
       Commune(6, Place.B5,  500,  200,  40, 60, 18,    14),  \* village near B
       Commune(7, Place.B5,  300,  100,  20, 50, 4,     20),  \* barely eligible
       Commune(8, Place.A5,  5000, 50,   90, 90, 6,     5) >>  \* too few households

RECURSIVE Reverse(_)
Reverse(s) == IF s = <<>> THEN <<>> ELSE Reverse(Tail(s)) \o <<Head(s)>>

\* The rows of the catalogue whose code is in S, in catalogue order.
Pick(S) == SelectSeq(Catalogue, LAMBDA c : c.code_commune \in S)

\* The commune tables: up to MaxCommunes distinct communes, in catalogue
\* order or in the reverse order.
Tables ==
    LET Subsets == {S \in SUBSET (1..Len(Catalogue)) : Cardinality(S) <= MaxCommunes}
    IN {Pick(S) : S \in Subsets} \cup {Reverse(Pick(S)) : S \in Subsets}

\* The max_radius_km argument: <<>> is None, <<r>> is r km.
RadiusArgs == {<<>>, <<10>>, <<200>>}

\* Values the dashboard's number_input can give config.MIN_HOUSEHOLDS.
MinHouseholdsChoices == {500, 1000}

\* Values the dashboard's slider (10..50, step 5) can give max_radius.
MaxRadiusChoices == {10, 15}

\* Values the dashboard's slider (0..100, step 5) can give
\* config.TARGET_CRITERIA['min_pct_maisons'].
MinPctMaisonsChoices == {20, 50}

\* np.log1p of a household count (a multiple of 100 up to 7000), in
\* thousandths.
Log1pTable ==
    <<0, 4615, 5303, 5707, 5994, 6217, 6399, 6553, 6686, 6804, 6909, 7004,
      7091, 7171, 7245, 7314, 7378, 7439, 7496, 7550, 7601, 7650, 7697, 7741,
      7784, 7824, 7864, 7901, 7938, 7973, 8007, 8039, 8071, 8102, 8132, 8161,
      8189, 8216, 8243, 8269, 8294, 8319, 8343, 8367, 8390, 8412, 8434, 8456,
      8477, 8497, 8517, 8537, 8557, 8576, 8594, 8613, 8631, 8648, 8666, 8683,
      8700, 8716, 8732, 8748, 8764, 8780, 8795, 8810, 8825, 8839, 8854>>

log1p(n) == Log1pTable[n \div 100 + 1]

-----------------------------------------------------------------------------
(* ZoneAnalyzer *)

\* ZoneAnalyzer(data): the analyzer after construction.  zones_df and
\* radius_used are the locals commune_assignments and max_radius_km of the
\* latest create_zones call on the analyzer (none yet).
ZoneAnalyzer(table) ==
    [data |-> table,
     national_median_income |->
        IF table = <<>> THEN "NaN"
        ELSE Median([i \in DOMAIN table |-> table[i].revenu_median]),
     zones |-> None,
     scored_zones |-> None,
     zones_df |-> <<>>,
     radius_used |-> <<>>]

\* Mutant of IsEligible: the thresholds themselves do not pass.
IsEligible_strict(c) ==
    /\ c.pct_maisons > 20
    /\ c.pct_residences_principales > 50
    /\ c.nb_menages > 100

\* The mask of filter_eligible_communes, its thresholds as written there.
IsEligible(c) ==
    /\ c.pct_maisons >= 20
    /\ c.pct_residences_principales >= 50
    /\ c.nb_menages >= 100

filter_eligible_communes(self) == SelectSeq(self.data, IsEligible)

\* DataFrame.nlargest(n, 'population_totale'): the n rows of largest
\* population, largest first, rows of equal population in table order.
RECURSIVE nlargest(_, _)
nlargest(n, rows) ==
    IF n = 0 \/ rows = <<>> THEN <<>>
    ELSE LET m == MaxOf({rows[k].population_totale : k \in DOMAIN rows})
             i == MinOf({k \in DOMAIN rows : rows[k].population_totale = m})
         IN <<rows[i]>> \o
            nlargest(n - 1, SubSeq(rows, 1, i - 1) \o SubSeq(rows, i + 1, Len(rows)))

IsCity(c) == c.population_totale >= 1000

\* Mutant of city_centers: the centers are always the most populated
\* communes, cities or not.
city_centers_alwaysTop(eligible) == nlargest(100, eligible)

\* The center list of create_zones.
city_centers(eligible) ==
    LET cities == SelectSeq(eligible, IsCity)
    IN IF Len(cities) = 0 THEN nlargest(100, eligible) ELSE cities

\* distances: from one commune to every center, in metres.
distances(commune, centers) ==
    [i \in DOMAIN centers |-> haversine(commune.place, centers[i].place)]

min_distance(commune, centers) == MinOf(Range(distances(commune, centers)))

\* Mutant of argmin: the last position holding the minimum.
argmin_last(d) == MaxOf({i \in DOMAIN d : d[i] = MinOf(Range(d))})

\* numpy argmin: the first position holding the minimum (1-based here).
argmin(d) == MinOf({i \in DOMAIN d : d[i] = MinOf(Range(d))})

\* Mutant of WithinRadius: the nearest center is taken whatever its distance.
WithinRadius_NoCutoff(dist_m, max_radius_km) == dist_m >= 0

\* Mutant of WithinRadius: a commune exactly at the radius is left out.
WithinRadius_strict(dist_m, max_radius_km) == dist_m < Metres(max_radius_km)

\* if min_distance <= max_radius_km
WithinRadius(dist_m, max_radius_km) == dist_m <= Metres(max_radius_km)

\* The row appended for an assigned commune; zone_id is the 0-based index
\* of the nearest center.
AssignmentRow(commune, centers) ==
    LET d == distances(commune, centers)
        nearest_idx == argmin(d)
    IN commune @@ [zone_id |-> nearest_idx - 1,
                   distance_to_center |-> d[nearest_idx],
                   center_commune |-> centers[nearest_idx].code_commune]

\* Mutant of commune_assignments: a commune gets a row for every center
\* within the radius (neighbourhood clustering).
RECURSIVE commune_assignments_overlap(_, _, _)
commune_assignments_overlap(eligible, centers, max_radius_km) ==
    IF eligible = <<>> THEN <<>>
    ELSE LET commune == Head(eligible)
             d == distances(commune, centers)
             near == SortedSeq({k \in DOMAIN centers : WithinRadius(d[k], max_radius_km)})
         IN [j \in DOMAIN near |->
               commune @@ [zone_id |-> near[j] - 1,
                           distance_to_center |-> d[near[j]],
                           center_commune |-> centers[near[j]].code_commune]]
            \o commune_assignments_overlap(Tail(eligible), centers, max_radius_km)

\* The loop over eligible.iterrows(): commune_assignments.
RECURSIVE commune_assignments(_, _, _)
commune_assignments(eligible, centers, max_radius_km) ==
    IF eligible = <<>> THEN <<>>
    ELSE LET commune == Head(eligible)
             rest == commune_assignments(Tail(eligible), centers, max_radius_km)
         IN IF WithinRadius(min_distance(commune, centers), max_radius_km)
            THEN <<AssignmentRow(commune, centers)>> \o rest
            ELSE rest

\* Mutant of LoopBody: zones are numbered in the order in which their
\* centers are first used.
LoopBody_firstSeen(commune, centers, max_radius_km, assignments) ==
    IF WithinRadius(min_distance(commune, centers), max_radius_km)
    THEN LET row == AssignmentRow(commune, centers)
             same == {k \in DOMAIN assignments :
                         assignments[k].center_commune = row.center_commune}
             seen == {assignments[k].zone_id : k \in DOMAIN assignments}
         IN Append(assignments,
                   [row EXCEPT !.zone_id =
                       IF same = {} THEN Cardinality(seen)
                       ELSE assignments[MinOf(same)].zone_id])
    ELSE assignments

\* One iteration of the loop over eligible.iterrows(): commune_assignments
\* after the iteration, given commune_assignments before it.
LoopBody(commune, centers, max_radius_km, assignments) ==
    IF WithinRadius(min_distance(commune, centers), max_radius_km)
    THEN Append(assignments, AssignmentRow(commune, centers))
    ELSE assignments

\* format_zone_name: the first three sorted names and the number of others.
format_zone_name(codes) ==
    LET communes == SortAsc(codes)
    IN IF Len(communes) <= 3 THEN [names |-> communes, autres |-> 0]
       ELSE [names |-> SubSeq(communes, 1, 3), autres |-> Len(communes) - 3]

\* Mutant of ZoneRow: population and households are aggregated with 'first'
\* instead of 'sum'.
ZoneRow_first(zone_id, members) ==
    [zone_id |-> zone_id,
     nb_communes |-> Len(members),
     nom_commune |-> format_zone_name([i \in DOMAIN members |-> members[i].code_commune]),
     population_totale |-> members[1].population_totale,
     nb_menages |-> members[1].nb_menages,
     pct_maisons |-> Mean([i \in DOMAIN members |-> members[i].pct_maisons]),
     pct_residences_principales |->
        Mean([i \in DOMAIN members |-> members[i].pct_residences_principales]),
     revenu_median |-> Median([i \in DOMAIN members |-> members[i].revenu_median]),
     taux_pauvrete |-> Mean([i \in DOMAIN members |-> members[i].taux_pauvrete]),
     center_commune |-> members[1].center_commune]

\* One row of groupby('zone_id').agg(agg_funcs).
ZoneRow(zone_id, members) ==
    [zone_id |-> zone_id,
     nb_communes |-> Len(members),
     nom_commune |-> format_zone_name([i \in DOMAIN members |-> members[i].code_commune]),
     population_totale |-> SumSeq([i \in DOMAIN members |-> members[i].population_totale]),
     nb_menages |-> SumSeq([i \in DOMAIN members |-> members[i].nb_menages]),
     pct_maisons |-> Mean([i \in DOMAIN members |-> members[i].pct_maisons]),
     pct_residences_principales |->
        Mean([i \in DOMAIN members |-> members[i].pct_residences_principales]),
     revenu_median |-> Median([i \in DOMAIN members |-> members[i].revenu_median]),
     taux_pauvrete |-> Mean([i \in DOMAIN members |-> members[i].taux_pauvrete]),
     center_commune |-> members[1].center_commune]

\* zones_df.groupby('zone_id').agg(...).reset_index(): one row per zone_id,
\* in ascending zone_id order.
GroupByZone(df) ==
    LET ids == SortedSeq({df[i].zone_id : i \in DOMAIN df})
    IN [k \in DOMAIN ids |->
          ZoneRow(ids[k], SelectSeq(df, LAMBDA r : r.zone_id = ids[k]))]

\* The strict zone-level criteria.
PassesZoneFilter(z) ==
    /\ z.pct_maisons >= Fix(50)
    /\ z.pct_residences_principales >= Fix(70)
    /\ z.nb_communes >= 2

\* Mutant of _aggregate_zones: the zone-level criteria are not applied.
_aggregate_zones_unfiltered(df) == GroupByZone(df)

_aggregate_zones(df) == SelectSeq(GroupByZone(df), PassesZoneFilter)

\* if max_radius_km is None: max_radius_km = 15
EffectiveRadius(max_radius_km) ==
    IF max_radius_km = <<>> THEN 15 ELSE max_radius_km[1]

\* Mutant of create_zones: zones already formed are returned as they are.
create_zones_memoized(self, max_radius_km) ==
    LET r == EffectiveRadius(max_radius_km)
        eligible == filter_eligible_communes(self)
        centers == city_centers(eligible)
        assigned == commune_assignments(eligible, centers, r)
        called == [self EXCEPT !.radius_used = <<Metres(r)>>, !.zones_df = <<>>]
    IN IF ~self.zones.isNone /\ Len(self.zones.rows) > 0
       THEN [self |-> self, ret |-> self.zones]
       ELSE IF Len(eligible) = 0 THEN [self |-> called, ret |-> EmptyDF]
       ELSE IF Len(assigned) = 0
            THEN [self |-> [called EXCEPT !.zones_df = assigned], ret |-> EmptyDF]
            ELSE LET z == DF(_aggregate_zones(assigned))
                 IN [self |-> [called EXCEPT !.zones_df = assigned, !.zones = z],
                     ret |-> z]

\* Mutant of create_zones: the early returns store the empty table in
\* self.zones.
create_zones_storesEmpty(self, max_radius_km) ==
    LET r == EffectiveRadius(max_radius_km)
        eligible == filter_eligible_communes(self)
        centers == city_centers(eligible)
        assigned == commune_assignments(eligible, centers, r)
        called == [self EXCEPT !.radius_used = <<Metres(r)>>, !.zones_df = <<>>]
    IN IF Len(eligible) = 0
       THEN [self |-> [called EXCEPT !.zones = EmptyDF], ret |-> EmptyDF]
       ELSE IF Len(assigned) = 0
            THEN [self |-> [called EXCEPT !.zones_df = assigned, !.zones = EmptyDF],
                  ret |-> EmptyDF]
            ELSE LET z == DF(_aggregate_zones(assigned))
                 IN [self |-> [called EXCEPT !.zones_df = assigned, !.zones = z],
                     ret |-> z]

\* create_zones(max_radius_km): the analyzer afterwards and the table returned.
create_zones(self, max_radius_km) ==
    LET r == EffectiveRadius(max_radius_km)
        eligible == filter_eligible_communes(self)
        centers == city_centers(eligible)
        assigned == commune_assignments(eligible, centers, r)
        called == [self EXCEPT !.radius_used = <<Metres(r)>>, !.zones_df = <<>>]
    IN IF Len(eligible) = 0 THEN [self |-> called, ret |-> EmptyDF]
       ELSE IF Len(assigned) = 0
            THEN [self |-> [called EXCEPT !.zones_df = assigned], ret |-> EmptyDF]
            ELSE LET z == DF(_aggregate_zones(assigned))
                 IN [self |-> [called EXCEPT !.zones_df = assigned, !.zones = z],
                     ret |-> z]

-----------------------------------------------------------------------------
(* Scoring *)

Clamp(x, lo, hi) == IF x < lo THEN lo ELSE IF x > hi THEN hi ELSE x

\* utils.normalize_score for one value (utils.py is not among the sources;
\* this is the normalization primitive of the design, section 4.6):
\* 100 * clamp((value - lower) / (upper - lower), 0, 1), and for
\* lower = upper, 100 if value >= bound, else 0.  Result in hundredths.
normalize_score(value, lower_bound, upper_bound) ==
    IF lower_bound = upper_bound
    THEN IF value >= lower_bound THEN Fix(100) ELSE 0
    ELSE Clamp(FloorDiv((value - lower_bound) * Fix(100), upper_bound - lower_bound),
               0, Fix(100))

\* config.TARGET_CONVERSION_RATE (config.py is not among the sources): 0.02,
\* in hundredths.
TARGET_CONVERSION_RATE == 2

\* Mutant of _score_housing: absolute bounds 0 and 100 in place of the
\* minimum and maximum of the zone set.
_score_housing_absolute(zs) ==
    [i \in DOMAIN zs |->
       (normalize_score(zs[i].pct_maisons, 0, Fix(100)) * 6
        + normalize_score(zs[i].pct_residences_principales, 0, Fix(100)) * 4)
       \div 10]

\* houses_score * 0.6 + primary_score * 0.4, per zone.
_score_housing(zs) ==
    LET pm == {zs[k].pct_maisons : k \in DOMAIN zs}
        prp == {zs[k].pct_residences_principales : k \in DOMAIN zs}
    IN [i \in DOMAIN zs |->
          (normalize_score(zs[i].pct_maisons, MinOf(pm), MaxOf(pm)) * 6
           + normalize_score(zs[i].pct_residences_principales, MinOf(prp), MaxOf(prp)) * 4)
          \div 10]

\* income_score * 0.7 + poverty_penalty * 0.3, per zone.
_score_income(self, zs) ==
    LET nmi == self.national_median_income
        tp == {zs[k].taux_pauvrete : k \in DOMAIN zs}
    IN [i \in DOMAIN zs |->
          (normalize_score(zs[i].revenu_median, (nmi * 8) \div 10, (nmi * 15) \div 10) * 7
           + normalize_score(0 - zs[i].taux_pauvrete, 0 - MaxOf(tp), 0 - MinOf(tp)) * 3)
          \div 10]

\* normalize_score(log1p(nb_menages), log1p(config.MIN_HOUSEHOLDS),
\* log1p(max nb_menages)), per zone.
_score_market_size(zs) ==
    LET men == {zs[k].nb_menages : k \in DOMAIN zs}
    IN [i \in DOMAIN zs |->
          normalize_score(log1p(zs[i].nb_menages), log1p(MIN_HOUSEHOLDS),
                          log1p(MaxOf(men)))]

\* Mutant of score_total: the weights sum to more than 1.
score_total_overweight(housing, income, market) ==
    (housing * 50 + income * 30 + market * 30) \div 100

\* score_housing * 0.40 + score_income * 0.30 + score_market_size * 0.30
score_total(housing, income, market) ==
    (housing * 40 + income * 30 + market * 30) \div 100

\* Mutant of WithScores: potential_clients is taken from the population.
WithScores_population(self, zs) ==
    LET h == _score_housing(zs)
        inc == _score_income(self, zs)
        m == _score_market_size(zs)
    IN [i \in DOMAIN zs |->
          zs[i] @@ [score_housing |-> h[i],
                    score_income |-> inc[i],
                    score_market_size |-> m[i],
                    score_total |-> score_total(h[i], inc[i], m[i]),
                    potential_clients |->
                       zs[i].population_totale * TARGET_CONVERSION_RATE]]

\* The zone rows with the score columns and potential_clients added.
WithScores(self, zs) ==
    LET h == _score_housing(zs)
        inc == _score_income(self, zs)
        m == _score_market_size(zs)
    IN [i \in DOMAIN zs |->
          zs[i] @@ [score_housing |-> h[i],
                    score_income |-> inc[i],
                    score_market_size |-> m[i],
                    score_total |-> score_total(h[i], inc[i], m[i]),
                    potential_clients |-> zs[i].nb_menages * TARGET_CONVERSION_RATE]]

\* Which of several rows of equal score_total comes first.  sort_values uses
\* its default kind 'quicksort', which is not a stable sort: the order of
\* equal keys is whatever the build's argsort gives, the same on every call.
TieChoice(ties) == IF argsortTies = "first" THEN MinOf(ties) ELSE MaxOf(ties)

\* Mutant of sort_values: the rows are left in zone_id order.
sort_values_unsorted(rows) == rows

\* zones.sort_values('score_total', ascending=False).reset_index(drop=True)
RECURSIVE sort_values(_)
sort_values(rows) ==
    IF rows = <<>> THEN <<>>
    ELSE LET m == MaxOf({rows[k].score_total : k \in DOMAIN rows})
             i == TieChoice({k \in DOMAIN rows : rows[k].score_total = m})
         IN <<rows[i]>> \o
            sort_values(SubSeq(rows, 1, i - 1) \o SubSeq(rows, i + 1, Len(rows)))

\* zones['rank'] = range(1, len(zones) + 1)
AddRank(rows) == [i \in DOMAIN rows |-> rows[i] @@ [rank |-> i]]

NoZones(z) == z.isNone \/ Len(z.rows) = 0

\* The value of a one-element set.  Below, an intermediate result is bound
\* by a set constructor, {body(v) : v \in {e}}, so that e is evaluated once.
The(S) == CHOOSE v \in S : TRUE

\* if self.zones is None or len(self.zones) == 0: self.create_zones()
EnsureZones(self) ==
    IF NoZones(self.zones) THEN create_zones(self, <<>>).self ELSE self

\* Mutant of ScoreZones: the zones below config.MIN_HOUSEHOLDS are dropped
\* before scoring.
ScoreZones_minHouseholds(s1) ==
    IF NoZones(s1.zones) THEN [self |-> s1, ret |-> EmptyDF]
    ELSE The({[self |-> [s1 EXCEPT !.scored_zones = scored], ret |-> scored] :
              scored \in {The({IF kept = <<>> THEN EmptyDF
                                ELSE DF(AddRank(sort_values(WithScores(s1, kept)))) :
                                kept \in {SelectSeq(s1.zones.rows,
                                             LAMBDA z : z.nb_menages >= MIN_HOUSEHOLDS)}})}})

\* The body of calculate_scores after the creation attempt.
ScoreZones(s1) ==
    IF NoZones(s1.zones) THEN [self |-> s1, ret |-> EmptyDF]
    ELSE The({[self |-> [s1 EXCEPT !.scored_zones = scored], ret |-> scored] :
              scored \in {DF(AddRank(sort_values(WithScores(s1, s1.zones.rows))))}})

\* calculate_scores(): the analyzer afterwards and the table returned.
calculate_scores(self) == The({ScoreZones(s1) : s1 \in {EnsureZones(self)}})

\* DataFrame.head(n)
head(rows, n) == SubSeq(rows, 1, IF n < Len(rows) THEN n ELSE Len(rows))

\* if self.scored_zones is None: self.calculate_scores()
EnsureScored(self) ==
    IF self.scored_zones.isNone THEN calculate_scores(self).self ELSE self

\* return self.scored_zones.head(n), which raises on None.
TopOf(s1, n) ==
    IF s1.scored_zones.isNone
    THEN [self |-> s1, ret |-> <<>>, raised |-> "AttributeError"]
    ELSE [self |-> s1, ret |-> head(s1.scored_zones.rows, n), raised |-> ""]

\* get_top_zones(n): the analyzer afterwards, and the table returned or the
\* exception raised.
get_top_zones(self, n) == The({TopOf(s1, n) : s1 \in {EnsureScored(self)}})

\* The body of get_zone_details after the scoring attempt: subscripting None
\* raises; otherwise {} (<<>>) or the first matching row's dictionary.
DetailsOf(s1, zone_id) ==
    IF s1.scored_zones.isNone
    THEN [self |-> s1, ret |-> <<>>, raised |-> "TypeError"]
    ELSE LET zone == SelectSeq(s1.scored_zones.rows, LAMBDA z : z.zone_id = zone_id)
         IN [self |-> s1,
             ret |-> IF Len(zone) = 0 THEN <<>> ELSE <<zone[1]>>,
             raised |-> ""]

\* get_zone_details(zone_id): the analyzer afterwards, and the dictionary
\* returned or the exception raised.
get_zone_details(self, zone_id) ==
    The({DetailsOf(s1, zone_id) : s1 \in {EnsureScored(self)}})

-----------------------------------------------------------------------------
(* The state machine: one analyzer, its caller's calls *)

\* The analyzer object as the operations see it.
Self ==
    [data |-> data, national_median_income |-> national_median_income,
     zones |-> zones, scored_zones |-> scored_zones,
     zones_df |-> zones_df, radius_used |-> radius_used]

Becomes(self) ==
    /\ data' = self.data
    /\ national_median_income' = self.national_median_income
    /\ zones' = self.zones
    /\ scored_zones' = self.scored_zones
    /\ zones_df' = self.zones_df
    /\ radius_used' = self.radius_used

Returned(op, kind, rows) == [op |-> op, kind |-> kind, rows |-> rows, raised |-> ""]
Raised(op, exc) == [op |-> op, kind |-> "raise", rows |-> <<>>, raised |-> exc]

NoRun == [phase |-> 0, arg |-> <<>>, reused |-> FALSE]

\* The caller holds no table.
NotHeld == [alias |-> "none", rows |-> <<>>, snapshot |-> <<>>]

\* The table the caller holds is no longer (or never was) an object the
\* analyzer refers to.
Detached(h) == IF h.alias = "none" THEN h ELSE [h EXCEPT !.alias = "detached"]

\* What a create_zones call does to the table the caller holds: line 153
\* binds self.zones to a new DataFrame (when the call gets that far, that
\* is, when it assigned a commune), the DataFrame that was self.zones keeps
\* its contents.
HeldAfterCreate(h, after) ==
    IF h.alias = "zones" /\ after.zones_df # <<>> THEN Detached(h) ELSE h

\* Mutant of HeldAfterScores: calculate_scores works on self.zones itself
\* (no copy), so the score columns are added to the table create_zones
\* returned.
HeldAfterScores_inPlace(h, self) ==
    IF h.alias = "none" THEN h
    ELSE The({IF NoZones(s1.zones) THEN h
              ELSE IF h.alias = "zones" /\ ~NoZones(self.zones)
                   THEN [h EXCEPT !.rows = WithScores(s1, s1.zones.rows)]
                   ELSE h :
              s1 \in {EnsureZones(self)}})

\* What a calculate_scores call on the analyzer self does to the table the
\* caller holds: the create_zones() of line 221 if it is made; then line
\* 228 copies self.zones, the columns are added to the copy, and line 258
\* binds self.scored_zones to the sorted copy.
HeldAfterScores(h, self) ==
    IF h.alias = "none" THEN h
    ELSE The({IF NoZones(s1.zones) THEN h1
              ELSE IF h1.alias = "scored_zones" THEN Detached(h1) ELSE h1 :
              <<s1, h1>> \in {<<s1, IF NoZones(self.zones)
                                     THEN HeldAfterCreate(h, s1) ELSE h>> :
                               s1 \in {EnsureZones(self)}}})

TopNs == {1, 20}
ZoneIds == 0..1

\* min_pct_maisons starts at the value config.py ships (config.py is not
\* among the sources; the design gives the default 20).
Init ==
    /\ \E table \in Tables :
          LET self == ZoneAnalyzer(table)
          IN /\ data = self.data
             /\ national_median_income = self.national_median_income
             /\ zones = self.zones
             /\ scored_zones = self.scored_zones
             /\ zones_df = self.zones_df
             /\ radius_used = self.radius_used
    /\ MIN_HOUSEHOLDS \in MinHouseholdsChoices
    /\ min_pct_maisons = 20
    /\ argsortTies \in {"first", "last"}
    /\ pending = {}
    /\ ret = Returned("__init__", "none", <<>>)
    /\ held = NotHeld
    /\ cache = {}
    /\ run = NoRun

\* analyzer.create_zones(max_radius_km = r)
CreateZones(r) ==
    \E o \in {create_zones(Self, r)} :
       /\ Becomes(o.self)
       /\ ret' = Returned("create_zones", "table", o.ret.rows)
       /\ run' = [phase |-> 1, arg |-> r,
                  reused |-> ~zones.isNone \/ ~scored_zones.isNone]
       /\ held' = HeldAfterCreate(held, o.self)
       /\ UNCHANGED <<MIN_HOUSEHOLDS, min_pct_maisons, argsortTies, pending, cache>>

\* analyzer.calculate_scores()
CalculateScores ==
    \E o \in {calculate_scores(Self)} :
       /\ Becomes(o.self)
       /\ ret' = Returned("calculate_scores", "table", o.ret.rows)
       /\ run' = IF run.phase = 1 THEN [run EXCEPT !.phase = 2] ELSE NoRun
       /\ held' = HeldAfterScores(held, Self)
       /\ UNCHANGED <<MIN_HOUSEHOLDS, min_pct_maisons, argsortTies, pending, cache>>

\* analyzer.get_top_zones(n)
GetTopZones(n) ==
    \E o \in {get_top_zones(Self, n)} :
       /\ Becomes(o.self)
       /\ ret' = IF o.raised = "" THEN Returned("get_top_zones", "table", o.ret)
                 ELSE Raised("get_top_zones", o.raised)
       /\ run' = NoRun
       /\ held' = IF scored_zones.isNone THEN HeldAfterScores(held, Self) ELSE held
       /\ UNCHANGED <<MIN_HOUSEHOLDS, min_pct_maisons, argsortTies, pending, cache>>

\* analyzer.get_zone_details(zone_id)
GetZoneDetails(zone_id) ==
    \E o \in {get_zone_details(Self, zone_id)} :
       /\ Becomes(o.self)
       /\ ret' = IF o.raised = "" THEN Returned("get_zone_details", "dict", o.ret)
                 ELSE Raised("get_zone_details", o.raised)
       /\ run' = NoRun
       /\ held' = IF scored_zones.isNone THEN HeldAfterScores(held, Self) ELSE held
       /\ UNCHANGED <<MIN_HOUSEHOLDS, min_pct_maisons, argsortTies, pending, cache>>

\* main(): config.MIN_HOUSEHOLDS = min_households
SetMinHouseholds(v) ==
    /\ v # MIN_HOUSEHOLDS
    /\ MIN_HOUSEHOLDS' = v
    /\ run' = NoRun
    /\ UNCHANGED <<data, national_median_income, zones, scored_zones,
                   min_pct_maisons, argsortTies, zones_df, radius_used,
                   pending, ret, held, cache>>

\* analyze_zones(): analyzer = ZoneAnalyzer(_data), a second analyzer built
\* from the same table.
NewAnalyzer ==
    /\ ~zones.isNone \/ ~scored_zones.isNone \/ radius_used # <<>>
    /\ Becomes(ZoneAnalyzer(data))
    /\ run' = NoRun
    /\ held' = Detached(held)
    /\ UNCHANGED <<MIN_HOUSEHOLDS, min_pct_maisons, argsortTies, pending, ret, cache>>

\* analyzer.filter_eligible_communes(): returns the eligible rows (a copy),
\* assigns nothing.
FilterEligibleCommunes ==
    /\ ret' = Returned("filter_eligible_communes", "table",
                       filter_eligible_communes(Self))
    /\ run' = NoRun
    /\ UNCHANGED <<data, national_median_income, zones, scored_zones,
                   MIN_HOUSEHOLDS, min_pct_maisons, argsortTies, zones_df,
                   radius_used, pending, held, cache>>

\* main(): config.TARGET_CRITERIA['min_pct_maisons'] = min_houses_pct
SetMinPctMaisons(v) ==
    /\ v # min_pct_maisons
    /\ min_pct_maisons' = v
    /\ run' = NoRun
    /\ UNCHANGED <<data, national_median_income, zones, scored_zones,
                   MIN_HOUSEHOLDS, argsortTies, zones_df, radius_used,
                   pending, ret, held, cache>>

\* The caller keeps the table the latest create_zones or calculate_scores
\* call returned: self.zones (line 155), self.scored_zones (lines 258-260),
\* or the new pd.DataFrame() of an early return.
Keep ==
    /\ ret.op \in {"create_zones", "calculate_scores"}
    /\ held.alias = "none"
    /\ held' = [alias |-> IF ret.op = "create_zones" /\ zones_df # <<>>
                          THEN "zones"
                          ELSE IF ret.op = "calculate_scores" /\ ~NoZones(zones)
                               THEN "scored_zones" ELSE "detached",
                rows |-> ret.rows, snapshot |-> ret.rows]
    /\ UNCHANGED <<data, national_median_income, zones, scored_zones,
                   MIN_HOUSEHOLDS, min_pct_maisons, argsortTies, zones_df,
                   radius_used, pending, ret, cache, run>>

Next ==
    \/ \E r \in RadiusArgs : CreateZones(r)
    \/ CalculateScores
    \/ \E n \in TopNs : GetTopZones(n)
    \/ \E id \in ZoneIds : GetZoneDetails(id)
    \/ \E v \in MinHouseholdsChoices : SetMinHouseholds(v)
    \/ NewAnalyzer

Spec == Init /\ [][Next]_vars

\* The body of analyze_zones(_data, max_radius): a new analyzer,
\* create_zones(max_radius_km = max_radius), calculate_scores().
analyze_zones(_data, max_radius) ==
    The({calculate_scores(analyzer) :
         analyzer \in {create_zones(ZoneAnalyzer(_data), <<max_radius>>).self}})

\* main(): scored_zones = analyze_zones(data, max_radius), called through
\* st.cache_data.  The cache key is made of the arguments whose name does
\* not start with an underscore, that is, of max_radius alone; on a hit the
\* stored table is returned and the body does not run.
AnalyzeZones(max_radius) ==
    /\ IF \E e \in cache : e.max_radius = max_radius
       THEN /\ ret' = Returned("analyze_zones", "table",
                               (CHOOSE e \in cache : e.max_radius = max_radius).rows)
            /\ UNCHANGED <<zones, scored_zones, zones_df, radius_used, cache>>
       ELSE \E o \in {analyze_zones(data, max_radius)} :
               /\ zones' = o.self.zones
               /\ scored_zones' = o.self.scored_zones
               /\ zones_df' = o.self.zones_df
               /\ radius_used' = o.self.radius_used
               /\ ret' = Returned("analyze_zones", "table", o.ret.rows)
               /\ cache' = cache \cup {[max_radius |-> max_radius, rows |-> o.ret.rows]}
    /\ run' = [phase |-> 3, arg |-> <<max_radius>>,
               reused |-> \E e \in cache : e.max_radius = max_radius]
    /\ UNCHANGED <<data, national_median_income, MIN_HOUSEHOLDS, min_pct_maisons,
                   argsortTies, pending, held>>

\* The reruns of the dashboard's main(): the sidebar values are written to
\* the configuration (lines 141-144), then the zones are analyzed (148).
NextDashboard ==
    \/ \E v \in MinHouseholdsChoices : SetMinHouseholds(v)
    \/ \E p \in MinPctMaisonsChoices : SetMinPctMaisons(p)
    \/ \E r \in MaxRadiusChoices : AnalyzeZones(r)

SpecDashboard == Init /\ [][NextDashboard]_vars

\* The engine's calls with a caller that keeps one of the tables returned
\* to it.
NextKeep ==
    \/ \E r \in RadiusArgs : CreateZones(r)
    \/ CalculateScores
    \/ NewAnalyzer
    \/ Keep

\* No step of NextKeep changes the configuration, and which objects a call
\* binds or copies does not depend on it: one configuration is taken.
InitKeep ==
    /\ Init
    /\ MIN_HOUSEHOLDS = MinOf(MinHouseholdsChoices)
    /\ argsortTies = "first"

SpecKeep == InitKeep /\ [][NextKeep]_vars

\* The assignment loop of create_zones taken one commune at a time, the
\* communes in any order (the loop is sequential in the code; section 5 of
\* the design allows it to be run in parallel across communes).
LoopRadiusArgs == RadiusArgs \cup {<<0>>}

\* create_zones(max_radius_km = arg) has been called on a new analyzer and
\* has reached its loop (lines 69-102).  The loop reads neither the
\* configuration nor the sort order, which are left at one value.
InitLoop ==
    /\ \E table \in Tables, arg \in LoopRadiusArgs :
          LET self == ZoneAnalyzer(table)
          IN /\ data = self.data
             /\ national_median_income = self.national_median_income
             /\ zones = self.zones
             /\ scored_zones = self.scored_zones
             /\ zones_df = <<>>
             /\ radius_used = <<Metres(EffectiveRadius(arg))>>
             /\ pending = DOMAIN filter_eligible_communes(self)
             /\ run = [phase |-> 0, arg |-> arg, reused |-> FALSE]
    /\ MIN_HOUSEHOLDS = MinOf(MinHouseholdsChoices)
    /\ min_pct_maisons = 20
    /\ argsortTies = "first"
    /\ ret = Returned("__init__", "none", <<>>)
    /\ held = NotHeld
    /\ cache = {}

\* The loop body for the i-th eligible commune.
LoopStep(i) ==
    /\ i \in pending
    /\ \E eligible \in {filter_eligible_communes(Self)} :
          zones_df' = LoopBody(eligible[i], city_centers(eligible),
                               EffectiveRadius(run.arg), zones_df)
    /\ pending' = pending \ {i}
    /\ UNCHANGED <<data, national_median_income, zones, scored_zones,
                   MIN_HOUSEHOLDS, min_pct_maisons, argsortTies, radius_used,
                   ret, held, cache, run>>

\* After the loop: the empty table when nothing was assigned, else
\* self.zones = self._aggregate_zones(zones_df); return self.zones.
LoopFinish ==
    /\ pending = {}
    /\ run.phase = 0
    /\ \E z \in {IF zones_df = <<>> THEN zones ELSE DF(_aggregate_zones(zones_df))} :
          /\ zones' = z
          /\ ret' = Returned("create_zones", "table",
                             IF zones_df = <<>> THEN <<>> ELSE z.rows)
    /\ run' = [run EXCEPT !.phase = 1]
    /\ UNCHANGED <<data, national_median_income, scored_zones, MIN_HOUSEHOLDS,
                   min_pct_maisons, argsortTies, zones_df, radius_used, pending,
                   held, cache>>

NextLoop ==
    \/ \E i \in 1..Len(data) : LoopStep(i)
    \/ LoopFinish

SpecLoop == InitLoop /\ [][NextLoop]_vars

\* The commune filter under the dashboard's filtering criterion: the slider
\* value is written to the configuration, the analyzer filters and forms
\* zones.
NextCriteria ==
    \/ \E v \in MinPctMaisonsChoices : SetMinPctMaisons(v)
    \/ FilterEligibleCommunes
    \/ \E r \in RadiusArgs : CreateZones(r)

SpecCriteria == Init /\ [][NextCriteria]_vars

-----------------------------------------------------------------------------
(* Properties *)

\* The center list of the analyzer's table.
Centers == city_centers(filter_eligible_communes(Self))

\* The eligible communes of the analyzer's table, the thresholds written out.
EligibleRows ==
    SelectSeq(data, LAMBDA c : c.pct_maisons >= 20
                               /\ c.pct_residences_principales >= 50
                               /\ c.nb_menages >= 100)

AssignedCodes == {zones_df[i].code_commune : i \in DOMAIN zones_df}

\* C1 (partition): in the assignment table of a create_zones run every
\* commune code appears in at most one row, hence under one zone_id only,
\* and the member names of two different zones of the zone table are
\* disjoint.
C1_Partition ==
    /\ \A i, j \in DOMAIN zones_df :
          zones_df[i].code_commune = zones_df[j].code_commune => i = j
    /\ \A i, j \in DOMAIN zones.rows :
          i # j => Range(zones.rows[i].nom_commune.names)
                   \cap Range(zones.rows[j].nom_commune.names) = {}

\* A run in which a commune lies within the radius of two centers and two
\* zones were formed.
C1_Witness ==
    /\ radius_used # <<>>
    /\ Cardinality({zones_df[i].zone_id : i \in DOMAIN zones_df}) >= 2
    /\ \E i \in DOMAIN zones_df :
          Cardinality({k \in DOMAIN Centers :
                          haversine(zones_df[i].place, Centers[k].place)
                             <= radius_used[1]}) >= 2

\* The radius, in metres, that a call create_zones(max_radius_km = arg) is
\* to use.
RadiusOfArg(arg) == IF arg = <<>> THEN 15000 ELSE arg[1] * 1000

\* C2 (radius cutoff): right after create_zones(r) an eligible commune is
\* assigned iff some center is within r km of it (15 km when r is None), and
\* no recorded distance_to_center ever exceeds the radius of its run.
C2_RadiusCutoff ==
    /\ run.phase = 1 =>
          \A i \in DOMAIN EligibleRows :
             (EligibleRows[i].code_commune \in AssignedCodes)
             <=> \E k \in DOMAIN Centers :
                    haversine(EligibleRows[i].place, Centers[k].place)
                       <= RadiusOfArg(run.arg)
    /\ \A i \in DOMAIN zones_df :
          /\ radius_used # <<>>
          /\ zones_df[i].distance_to_center <= radius_used[1]

\* create_zones() with the default radius left one eligible commune out and
\* assigned another.
C2_Witness ==
    /\ run.phase = 1
    /\ run.arg = <<>>
    /\ zones_df # <<>>
    /\ \E i \in DOMAIN EligibleRows : EligibleRows[i].code_commune \notin AssignedCodes

\* C3 (nearest center): the zone_id of every assigned commune is the index
\* of a center at minimal distance, the lowest such index, and the recorded
\* distance and center are that center's; the commune 5 km from center 0 and
\* 200 km from center 1 is in zone 0 at radius 15.
C3_NearestCenter ==
    /\ \A i \in DOMAIN zones_df :
          LET row == zones_df[i]
              k == row.zone_id + 1
          IN /\ k \in DOMAIN Centers
             /\ \A j \in DOMAIN Centers :
                   /\ haversine(row.place, Centers[k].place)
                         <= haversine(row.place, Centers[j].place)
                   /\ j < k => haversine(row.place, Centers[k].place)
                                  < haversine(row.place, Centers[j].place)
             /\ row.distance_to_center = haversine(row.place, Centers[k].place)
             /\ row.center_commune = Centers[k].code_commune
    /\ (data = Pick({1, 2, 5}) /\ radius_used = <<15000>>) =>
          \E i \in DOMAIN zones_df :
             zones_df[i].code_commune = 1 /\ zones_df[i].zone_id = 0

\* The scenario: cities at A and B, a village 5 km from A, radius 15; and
\* the village has been assigned.
C3_Witness ==
    /\ data = Pick({1, 2, 5})
    /\ radius_used = <<15000>>
    /\ haversine(Place.A5, Place.A) = 5004
    /\ haversine(Place.A5, Place.B) = 200006
    /\ 1 \in AssignedCodes

\* C4 (zone filter): every zone of a table returned by create_zones or
\* calculate_scores, and of the tables the analyzer keeps, has at least 2
\* communes, mean pct_maisons >= 50 and mean pct_residences_principales >= 70.
C4_ZoneFilter ==
    \A t \in {IF ret.op \in {"create_zones", "calculate_scores"} THEN ret.rows ELSE <<>>,
              zones.rows, scored_zones.rows} :
       \A i \in DOMAIN t :
          /\ t[i].nb_communes >= 2
          /\ t[i].pct_maisons >= 5000
          /\ t[i].pct_residences_principales >= 7000

\* calculate_scores returned a zone that sits exactly on the thresholds
\* while another zone of the same run was filtered out.
C4_Witness ==
    /\ ret.op = "calculate_scores"
    /\ \E i \in DOMAIN ret.rows :
          /\ ret.rows[i].nb_communes = 2
          /\ ret.rows[i].pct_maisons = 5000
          /\ ret.rows[i].pct_residences_principales = 7000
    /\ \E i \in DOMAIN zones_df :
          \A j \in DOMAIN ret.rows : ret.rows[j].zone_id # zones_df[i].zone_id

\* C5 (ranking): in the table returned by calculate_scores the rank column
\* is 1..N in row order and score_total never increases down the rows.
C5_Ranking ==
    ret.op = "calculate_scores" =>
       /\ \A i \in DOMAIN ret.rows : ret.rows[i].rank = i
       /\ \A i, j \in DOMAIN ret.rows :
             i < j => ret.rows[i].score_total >= ret.rows[j].score_total

\* Two zones were returned and the better one has the higher zone_id: the
\* sort changed the order.
C5_Witness ==
    /\ ret.op = "calculate_scores"
    /\ Len(ret.rows) = 2
    /\ ret.rows[1].score_total > ret.rows[2].score_total
    /\ ret.rows[1].zone_id > ret.rows[2].zone_id

\* C6 (stable ties): of two zones of equal score_total the one that came
\* first in the zone table (the lower zone_id) has the lower rank.
C6_StableTies ==
    ret.op = "calculate_scores" =>
       \A i, j \in DOMAIN ret.rows :
          (i < j /\ ret.rows[i].score_total = ret.rows[j].score_total)
             => ret.rows[i].zone_id < ret.rows[j].zone_id

\* C7 (score range): the four scores of every zone of every table the
\* engine returns or keeps lie in [0, 100].
C7_ScoreRange ==
    \A t \in {IF ret.op \in {"calculate_scores", "get_top_zones", "get_zone_details"}
              THEN ret.rows ELSE <<>>,
              scored_zones.rows} :
       \A i \in DOMAIN t :
          /\ 0 <= t[i].score_housing /\ t[i].score_housing <= 10000
          /\ 0 <= t[i].score_income /\ t[i].score_income <= 10000
          /\ 0 <= t[i].score_market_size /\ t[i].score_market_size <= 10000
          /\ 0 <= t[i].score_total /\ t[i].score_total <= 10000

\* A scored zone whose households are below config.MIN_HOUSEHOLDS, as are
\* those of every zone of the table, and whose income is above 1.5 times
\* the national median.
C7_Witness ==
    /\ ret.op = "calculate_scores"
    /\ ret.rows # <<>>
    /\ \A i \in DOMAIN ret.rows : ret.rows[i].nb_menages < MIN_HOUSEHOLDS
    /\ \E i \in DOMAIN ret.rows :
          ret.rows[i].revenu_median * 10 > national_median_income * 15

\* create_zones(arg) then calculate_scores() on an analyzer newly built from
\* the table: the ranked table.
FreshRun(table, arg) ==
    calculate_scores(create_zones(ZoneAnalyzer(table), arg).self).ret

\* C8 (idempotence): whenever create_zones(r); calculate_scores() has just
\* run on the analyzer, whatever was called on it before, the ranked table
\* it returned is the one the same two calls give on an analyzer newly
\* built from the same table under the same configuration.
C8_Idempotent ==
    run.phase = 2 => ret.rows = FreshRun(data, run.arg).rows

\* A run completed on an analyzer that had been used before, giving two
\* ranked zones.
C8_Witness ==
    /\ run.phase = 2
    /\ run.reused
    /\ Len(ret.rows) = 2

\* No commune of the analyzer's table passes CommuneFilter.
NoEligibleCommune ==
    \A i \in DOMAIN data :
       ~(/\ data[i].pct_maisons >= 20
         /\ data[i].pct_residences_principales >= 50
         /\ data[i].nb_menages >= 100)

\* C9 (empty input): on a table without an eligible commune create_zones
\* and calculate_scores return the empty table, raise nothing, and leave
\* zones unset.
C9_EmptyInput ==
    NoEligibleCommune =>
       /\ zones.isNone
       /\ scored_zones.isNone
       /\ ret.op \in {"create_zones", "calculate_scores"} =>
             (ret.kind = "table" /\ ret.rows = <<>> /\ ret.raised = "")

\* calculate_scores has returned right after create_zones on a table whose
\* only commune is not eligible.
C9_Witness ==
    /\ NoEligibleCommune
    /\ Len(data) = 1
    /\ run.phase = 2
    /\ ret.op = "calculate_scores"

\* C10 (no fatal outcome): on an analyzer without zones no public operation
\* ends in an exception.
C10_NoFatal == NoZones(zones) => ret.kind # "raise"

\* C11 (empty result after the zone filter): when create_zones(r) formed
\* zones of which none passed the zone filter, the calculate_scores call
\* that follows returns the empty table; and the zones behind the table it
\* returns were formed with the radius r of the run, never another one.
C11_EmptyAfterFilter ==
    run.phase = 2 =>
       /\ ret.rows # <<>> => radius_used = <<RadiusOfArg(run.arg)>>
       /\ \A o \in {create_zones(ZoneAnalyzer(data), run.arg)} :
             (o.self.zones_df # <<>> /\ o.ret.rows = <<>>) => ret.rows = <<>>

\* C12 (degenerate normalization): when all zones of the scored table have
\* the same pct_maisons, the same pct_residences_principales or the same
\* taux_pauvrete (a single zone has all three), the sub-score normalized
\* between the minimum and the maximum of that column is 100 for every zone:
\* it contributes its full weight to score_housing (0.6, 0.4) or to
\* score_income (0.3), and no call ends in an exception.
C12_DegenerateNormalization ==
    ret.op = "calculate_scores" =>
       /\ ret.kind = "table"
       /\ (\A i, j \in DOMAIN ret.rows :
              ret.rows[i].pct_maisons = ret.rows[j].pct_maisons)
          => \A i \in DOMAIN ret.rows : ret.rows[i].score_housing >= 6000
       /\ (\A i, j \in DOMAIN ret.rows :
              ret.rows[i].pct_residences_principales
                 = ret.rows[j].pct_residences_principales)
          => \A i \in DOMAIN ret.rows : ret.rows[i].score_housing >= 4000
       /\ (\A i, j \in DOMAIN ret.rows :
              /\ ret.rows[i].pct_maisons = ret.rows[j].pct_maisons
              /\ ret.rows[i].pct_residences_principales
                    = ret.rows[j].pct_residences_principales)
          => \A i \in DOMAIN ret.rows : ret.rows[i].score_housing = 10000
       /\ (\A i, j \in DOMAIN ret.rows :
              ret.rows[i].taux_pauvrete = ret.rows[j].taux_pauvrete)
          => \A i \in DOMAIN ret.rows : ret.rows[i].score_income >= 3000

\* Two zones tied on pct_maisons have been scored.
C12_Witness ==
    /\ ret.op = "calculate_scores"
    /\ Len(ret.rows) = 2
    /\ ret.rows[1].pct_maisons = ret.rows[2].pct_maisons
    /\ ret.rows[1].score_housing = 10000
    /\ ret.rows[2].score_housing = 10000

\* C13 (potential clients): potential_clients of every scored zone is its
\* nb_menages times the conversion rate; at the rate 0.02 a zone of 5000
\* households has potential_clients 100.00.
C13_PotentialClients ==
    \A t \in {IF ret.op = "calculate_scores" THEN ret.rows ELSE <<>>,
              scored_zones.rows} :
       \A i \in DOMAIN t :
          /\ t[i].potential_clients = t[i].nb_menages * TARGET_CONVERSION_RATE
          /\ t[i].nb_menages = 5000 => t[i].potential_clients = 10000

\* A zone whose members' households sum to 5000 has been scored.
C13_Witness ==
    /\ ret.op = "calculate_scores"
    /\ \E i \in DOMAIN ret.rows :
          /\ ret.rows[i].nb_menages = 5000
          /\ ret.rows[i].nb_communes = 2
          /\ ret.rows[i].population_totale # 5000

\* C14 (commune filter): a call of filter_eligible_communes returns exactly
\* the rows of the analyzer's table with pct_maisons >= 20,
\* pct_residences_principales >= 50 and nb_menages >= 100, in table order,
\* and the table is the same after the call.
C14_CommuneFilter ==
    [][ret'.op = "filter_eligible_communes" =>
          /\ ret'.rows = EligibleRows
          /\ data' = data]_vars

\* filter_eligible_communes returned the commune that sits on all three
\* thresholds together with another commune, and dropped a third.
C14_Witness ==
    /\ ret.op = "filter_eligible_communes"
    /\ Len(ret.rows) >= 2
    /\ Len(ret.rows) < Len(data)
    /\ \E i \in DOMAIN ret.rows :
          /\ ret.rows[i].pct_maisons = 20
          /\ ret.rows[i].pct_residences_principales = 50
          /\ ret.rows[i].nb_menages = 100

\* The eligible communes of at least 1000 inhabitants, in table order.
EligibleCities == SelectSeq(EligibleRows, LAMBDA c : c.population_totale >= 1000)

\* C15 (center selection): the center list is the eligible communes of
\* population >= 1000 in eligible-table order; only when there is none, it
\* is the eligible communes by decreasing population (at most 100, equal
\* populations in table order).  The zone_id of every assigned commune is
\* the 0-based position of its center in that list, and two zones of
\* different zone_id have different centers.
C15_CenterSelection ==
    /\ EligibleCities # <<>> => Centers = EligibleCities
    /\ EligibleCities = <<>> =>
          /\ Len(Centers) = IF Len(EligibleRows) < 100 THEN Len(EligibleRows) ELSE 100
          /\ \A i \in DOMAIN EligibleRows :
                LET before == {j \in DOMAIN EligibleRows :
                                 \/ EligibleRows[j].population_totale
                                       > EligibleRows[i].population_totale
                                 \/ /\ EligibleRows[j].population_totale
                                          = EligibleRows[i].population_totale
                                    /\ j < i}
                IN Cardinality(before) < 100
                      => Centers[Cardinality(before) + 1] = EligibleRows[i]
    /\ \A i \in DOMAIN zones_df :
          /\ zones_df[i].zone_id + 1 \in DOMAIN Centers
          /\ zones_df[i].center_commune
                = Centers[zones_df[i].zone_id + 1].code_commune
    /\ \A i, j \in DOMAIN zones.rows :
          zones.rows[i].zone_id # zones.rows[j].zone_id
             => zones.rows[i].center_commune # zones.rows[j].center_commune

\* No eligible commune has 1000 inhabitants: the centers are the eligible
\* communes by decreasing population, which is not their table order, and
\* create_zones has assigned communes to two of them.
C15_Witness ==
    /\ EligibleCities = <<>>
    /\ Centers # EligibleRows
    /\ Cardinality({zones_df[i].zone_id : i \in DOMAIN zones_df}) >= 2

\* C16 (minimum households never filters): the table calculate_scores
\* returns has exactly the zones of the zone table, one row each, whatever
\* their nb_menages and whatever config.MIN_HOUSEHOLDS.
C16_MinHouseholdsNoFilter ==
    (ret.op = "calculate_scores" /\ ~NoZones(zones)) =>
       /\ Len(ret.rows) = Len(zones.rows)
       /\ \A i \in DOMAIN zones.rows :
             \E j \in DOMAIN ret.rows :
                /\ ret.rows[j].zone_id = zones.rows[i].zone_id
                /\ ret.rows[j].nb_menages = zones.rows[i].nb_menages

\* A scored table with a zone below config.MIN_HOUSEHOLDS and a zone above.
C16_Witness ==
    /\ ret.op = "calculate_scores"
    /\ \E i \in DOMAIN ret.rows : ret.rows[i].nb_menages < MIN_HOUSEHOLDS
    /\ \E i \in DOMAIN ret.rows : ret.rows[i].nb_menages > MIN_HOUSEHOLDS

\* C17 (caller's house threshold): the communes filter_eligible_communes
\* returns, and those create_zones assigns, are taken from the communes with
\* pct_maisons >= config.TARGET_CRITERIA['min_pct_maisons'] as the caller
\* has set it; the filter returns exactly those that also have
\* pct_residences_principales >= 50 and nb_menages >= 100.
C17_CallerThreshold ==
    /\ ret.op = "filter_eligible_communes" =>
          ret.rows = SelectSeq(data, LAMBDA c : /\ c.pct_maisons >= min_pct_maisons
                                                /\ c.pct_residences_principales >= 50
                                                /\ c.nb_menages >= 100)
    /\ run.phase = 1 =>
          \A i \in DOMAIN zones_df : zones_df[i].pct_maisons >= min_pct_maisons

\* The sum of one integer column over the rows of a table.
RECURSIVE TotalOf(_, _)
TotalOf(rows, column) ==
    IF rows = <<>> THEN 0 ELSE Head(rows)[column] + TotalOf(Tail(rows), column)

\* C18 (aggregation conservation): the zone table before the zone filter,
\* groupby('zone_id') of the assignment table, has exactly one row per
\* zone_id of the assignment table; the row's nb_communes is the number of
\* communes assigned to the zone, its population_totale and nb_menages are
\* their sums; nb_communes summed over the rows is the number of assigned
\* communes; and the zones the analyzer keeps are rows of that table.
C18_AggregationConservation ==
    \A G \in {GroupByZone(zones_df)} :
       /\ \A i, j \in DOMAIN G : G[i].zone_id = G[j].zone_id => i = j
       /\ {G[i].zone_id : i \in DOMAIN G}
             = {zones_df[k].zone_id : k \in DOMAIN zones_df}
       /\ \A i \in DOMAIN G :
             \A members \in {SelectSeq(zones_df, LAMBDA r : r.zone_id = G[i].zone_id)} :
                /\ G[i].nb_communes = Len(members)
                /\ G[i].population_totale = TotalOf(members, "population_totale")
                /\ G[i].nb_menages = TotalOf(members, "nb_menages")
       /\ TotalOf(G, "nb_communes") = Len(zones_df)
       /\ \A i \in DOMAIN zones.rows : \E j \in DOMAIN G : G[j] = zones.rows[i]

\* An assignment table with a zone of several communes and a zone of one,
\* kept and filtered out respectively, and an eligible commune left out.
C18_Witness ==
    /\ Len(zones_df) < Len(EligibleRows)
    /\ \E i, j, k \in DOMAIN zones_df :
          /\ i # j
          /\ zones_df[i].zone_id = zones_df[j].zone_id
          /\ zones_df[k].zone_id # zones_df[i].zone_id
          /\ \A m \in DOMAIN zones_df :
                zones_df[m].zone_id = zones_df[k].zone_id => m = k
    /\ Len(zones.rows) = 1

\* C19 (centers are members): once the loop of a create_zones call is over,
\* every center has a row in the assignment table, at distance 0 and in its
\* own zone or in the zone of a center of lower index at the same place; so
\* the assignment table is empty only if there is no eligible commune.
C19_CentersAreMembers ==
    (radius_used # <<>> /\ pending = {}) =>
       /\ \A k \in DOMAIN Centers :
             \E i \in DOMAIN zones_df :
                /\ zones_df[i].code_commune = Centers[k].code_commune
                /\ zones_df[i].distance_to_center = 0
                /\ zones_df[i].zone_id + 1 <= k
                /\ Centers[zones_df[i].zone_id + 1].place = Centers[k].place
       /\ EligibleRows # <<>> => zones_df # <<>>

\* The loop is over at radius 0 on a table with two centers at the same
\* place and a third elsewhere.
C19_Witness ==
    /\ radius_used = <<0>>
    /\ pending = {}
    /\ Len(Centers) = 3
    /\ Centers[1].place = Centers[2].place
    /\ Centers[3].place # Centers[1].place
    /\ Len(zones_df) = 3

\* C20 (order independence): whatever the order in which the loop of
\* create_zones takes the eligible communes, every row it records (zone_id,
\* distance_to_center, center_commune of a commune) is the row the loop
\* records for that commune when it runs in table order, and once every
\* commune has been taken the two assignment tables hold the same rows.
C20_OrderIndependence ==
    \A inOrder \in {commune_assignments(EligibleRows, Centers,
                                        EffectiveRadius(run.arg))} :
       /\ Range(zones_df) \subseteq Range(inOrder)
       /\ pending = {} => Range(zones_df) = Range(inOrder)
       /\ \A i, j \in DOMAIN zones_df :
             zones_df[i].code_commune = zones_df[j].code_commune => i = j

\* The loop went through the communes in another order than the table's and
\* assigned three communes or more, to two zones or more.
C20_Witness ==
    /\ pending = {}
    /\ Len(zones_df) >= 3
    /\ zones_df # commune_assignments(EligibleRows, Centers, EffectiveRadius(run.arg))
    /\ Cardinality({zones_df[i].zone_id : i \in DOMAIN zones_df}) >= 2
    /\ zones_df[1].zone_id > zones_df[Len(zones_df)].zone_id

\* C21 (no mutation of earlier results): no step changes the contents of a
\* table an earlier create_zones or calculate_scores call returned and the
\* caller still holds, nor the commune table, nor the national median
\* income computed at construction.
C21_NoMutation ==
    [][/\ held'.rows = held'.snapshot
       /\ data' = data
       /\ national_median_income' = national_median_income]_vars

\* The caller holds a zone table that create_zones returned; since then
\* calculate_scores has scored those zones and a later create_zones has
\* formed other zones.
C21_Witness ==
    /\ held.alias = "detached"
    /\ held.snapshot # <<>>
    /\ "score_total" \notin DOMAIN held.snapshot[1]
    /\ ~scored_zones.isNone
    /\ Len(scored_zones.rows) = Len(held.snapshot)
    /\ ~zones.isNone
    /\ zones.rows # held.snapshot

\* C22 (scored table never stale): the table get_top_zones and
\* get_zone_details read, scored_zones, has one row for each zone the most
\* recent create_zones call produced and no other, and each row carries
\* that zone's aggregates.
C22_ScoredNeverStale ==
    (~scored_zones.isNone /\ ~zones.isNone) =>
       /\ Len(scored_zones.rows) = Len(zones.rows)
       /\ \A i \in DOMAIN scored_zones.rows :
             \E j \in DOMAIN zones.rows :
                /\ scored_zones.rows[i].zone_id = zones.rows[j].zone_id
                /\ scored_zones.rows[i].nb_communes = zones.rows[j].nb_communes
                /\ scored_zones.rows[i].nb_menages = zones.rows[j].nb_menages
                /\ scored_zones.rows[i].pct_maisons = zones.rows[j].pct_maisons

\* C23 (dashboard cache equivalence): the table a dashboard rerun has just
\* got from the cached analyze_zones is the table that create_zones(max_radius);
\* calculate_scores() gives on a new analyzer for the current data, the
\* current radius and the current config.MIN_HOUSEHOLDS.
C23_CacheEquivalence ==
    run.phase = 3 => ret.rows = FreshRun(data, run.arg).rows

=============================================================================
